---- MODULE Spec2Model ----
(***************************************************************************)
(* Model of the cleanup engine of krvcho/windows-tools,                    *)
(* src/cleanup_manager.py: the location catalog, the concurrent size       *)
(* scanner and the four retention strategies driven by                     *)
(* cleanup_selected_locations.                                             *)
(*                                                                         *)
(* Conventions.                                                            *)
(*  - Sizes are kept in bytes.  A field the source holds in megabytes      *)
(*    (size_mb, size_freed_mb) is the byte count divided by 1024*1024;     *)
(*    the model keeps the numerator of that fraction.                      *)
(*  - A directory is its listing, in the order os.listdir / os.walk        *)
(*    report it.  A tree is listed as os.walk(topdown=False) visits it:    *)
(*    the visit of a subdirectory before the visit of its parent, and in   *)
(*    a visit the files before the subdirectories; an entry names the      *)
(*    subdirectory it lies in (parent, 0 for the root of the location).    *)
(*    A file's "mode" is how the filesystem answers for it (for a          *)
(*    subdirectory: how os.listdir and os.rmdir answer):                   *)
(*      ok      every call succeeds                                        *)
(*      locked  os.remove raises PermissionError                           *)
(*      held    os.remove raises PermissionError while wuauserv runs       *)
(*      nostat  os.path.getsize / getmtime raise OSError                   *)
(*      gone    listed, but deleted by another process before the access   *)
(*      fault   the access raises an exception that is no OSError          *)
(*  - str(e) of a raised exception is a non-empty text.                    *)
(*  - log is the history of what the program did to the outside world      *)
(*    (progress callbacks, external commands, file deletions) and of the   *)
(*    entries to and returns from cleanup_location.                        *)
(***************************************************************************)
EXTENDS Integers, Sequences, FiniteSets, TLC

VARIABLES
    environ,      \* os.environ: TEMP and TMP ("" = not set)
    catalog,      \* self.cleanup_locations: key -> location
    fs,           \* the filesystem: path -> directory
    fs0,          \* the filesystem as it was when the operation began
    svc,          \* state of the wuauserv service
    keys,         \* location_keys passed to cleanup_selected_locations
    has_cb,       \* whether a progress_callback was passed
    pc,           \* position of the batch loop
    idx,          \* the loop index i
    results,      \* the results list
    log,          \* history of events
    scan_pc,      \* position of scan_cleanup_locations
    task,         \* key -> state of the pool task scanning that location
    completed,    \* the counter "completed" of scan_cleanup_locations
    totals,       \* self.total_size_mb and self.total_files
    scan_btn,         \* CleanupLocationWidget.scan_btn is enabled
    quick_temp_btn,   \* CleanupLocationWidget.quick_temp_btn is enabled
    cleanup_btn,      \* CleanupLocationWidget.cleanup_btn is enabled
    scan_threads,     \* CleanupScanThreads that are running
    scan_signals,     \* scan_complete signals emitted and not yet handled
    cleanup_threads,  \* CleanupExecutionThreads that are running
    cleanup_signals   \* cleanup_complete signals emitted and not yet handled

batchVars == <<keys, pc, idx, results>>

scanVars == <<scan_pc, task, completed, totals>>

guiVars ==
    <<scan_btn, quick_temp_btn, cleanup_btn, scan_threads, scan_signals,
      cleanup_threads, cleanup_signals>>

vars ==
    <<environ, catalog, fs, fs0, svc, keys, has_cb, pc, idx, results, log,
      scan_pc, task, completed, totals,
      scan_btn, quick_temp_btn, cleanup_btn, scan_threads, scan_signals,
      cleanup_threads, cleanup_signals>>

-----------------------------------------------------------------------------
(* Bounds of the model *)

MaxKeys == 2
MaxFiles == 2
MaxVar == 2
MaxThreads == 2

(* Program constants *)

KeepCount == 128
MaxWorkers == 4

-----------------------------------------------------------------------------
(* Paths *)

PUserTemp == "C:\\Users\\u\\AppData\\Local\\Temp"
PWinTemp == "C:\\Windows\\Temp"
PRecycleToken == "$Recycle.Bin"
PDownload == "C:\\Windows\\SoftwareDistribution\\Download"
PUpdateLogs == "C:\\Windows\\Logs\\WindowsUpdate"
PPrefetch == "C:\\Windows\\Prefetch"

Drives == {"C:", "D:", "E:", "F:"}

RecyclePath(drive) == drive \o "\\$Recycle.Bin"

Paths ==
    {PUserTemp, PWinTemp, PDownload, PUpdateLogs, PPrefetch}
        \cup {RecyclePath(d) : d \in Drives}

Modes == {"ok", "locked", "held", "nostat", "gone", "fault"}

File(id, ext, isfile, mtime, size, mode) ==
    [id |-> id, ext |-> ext, isfile |-> isfile, mtime |-> mtime,
     size |-> size, mode |-> mode, parent |-> 0]

(* The entry f placed in the subdirectory whose entry has the id parent *)
Under(parent, f) == [f EXCEPT !.parent = parent]

SubDir(id, mode) == File(id, "", FALSE, 1, 0, mode)

AbsentDir == [exists |-> FALSE, files |-> <<>>]

Dir(files) == [exists |-> TRUE, files |-> files]

-----------------------------------------------------------------------------
(* The catalog.  It holds the three keys that have a strategy of their own *)
(* (recycle_bin, prefetch, windows_update_cache) and, of the keys cleaned   *)
(* by the generic wipe, user_temp, system_temp, windows_temp and            *)
(* windows_update_logs.  The other generic keys of the source (the log,     *)
(* dump, error-report and cache directories) are entries of the same form   *)
(* as windows_update_logs, handled by the same code, and are left out.      *)

CleanupLocation(name, path, category, requires_admin, safe_to_delete) ==
    [name |-> name, path |-> path, size |-> 0, file_count |-> 0,
     enabled |-> TRUE, requires_admin |-> requires_admin,
     safe_to_delete |-> safe_to_delete, category |-> category]

SystemTempPath(env) == IF env.TMP = "" THEN PWinTemp ELSE env.TMP

FixedLocations(env) ==
    [k \in {"system_temp", "windows_temp", "recycle_bin",
            "windows_update_cache", "windows_update_logs", "prefetch"} |->
        CASE k = "system_temp" ->
                CleanupLocation("System Temporary Files", SystemTempPath(env),
                                "Temporary Files", TRUE, TRUE)
          [] k = "windows_temp" ->
                CleanupLocation("Windows Temp Directory", PWinTemp,
                                "Temporary Files", TRUE, TRUE)
          [] k = "recycle_bin" ->
                CleanupLocation("Recycle Bin", PRecycleToken,
                                "Recycle Bin", TRUE, FALSE)
          [] k = "windows_update_cache" ->
                CleanupLocation("Windows Update Cache", PDownload,
                                "System Cache", TRUE, TRUE)
          [] k = "windows_update_logs" ->
                CleanupLocation("Windows Update Logs", PUpdateLogs,
                                "Log Files", TRUE, TRUE)
          [] OTHER ->
                CleanupLocation("Prefetch Files", PPrefetch,
                                "System Cache", TRUE, TRUE)]

(* The keys in the order the dictionary holds them (insertion order) *)
CatalogOrder(env) ==
    (IF env.TEMP # "" THEN <<"user_temp">> ELSE <<>>)
        \o <<"system_temp", "windows_temp", "recycle_bin",
              "windows_update_cache", "windows_update_logs", "prefetch">>

InitializeCleanupLocations(env) ==
    IF env.TEMP # ""
    THEN [k \in {"user_temp"} |->
             CleanupLocation("User Temporary Files", env.TEMP,
                             "Temporary Files", FALSE, TRUE)]
         @@ FixedLocations(env)
    ELSE FixedLocations(env)

-----------------------------------------------------------------------------
(* Events of the history *)

(* i is the batch index of the cleanup_location call the event belongs to.  *)
(* A "cmd" event names the command run and how it ended (out: "ok" for     *)
(* exit code 0, else "nonzero", "timeout" or "oserror"; n = 1 when the     *)
(* command took effect).  An "exc" event is the raise of an exception that *)
(* no per-file handler catches.  A "file_progress" event is a call          *)
(* progress_callback(n, m) made by the generic wipe.                       *)

Event(ev, i, n, what, out) ==
    [ev |-> ev, i |-> i, n |-> n, m |-> 0, what |-> what, out |-> out]

OutcomeName(o) ==
    IF o.kind = "exit" THEN (IF o.rc = 0 THEN "ok" ELSE "nonzero") ELSE o.kind

EvProgress(i, total, message) == Event("progress", i, total, message, "")
EvEnter(i, key) == Event("enter", i, 0, key, "")
EvReturn(i, key) == Event("return", i, 0, key, "")
EvCmd(i, name, o) == Event("cmd", i, IF o.done THEN 1 ELSE 0, name, OutcomeName(o))
EvDelete(i, path, id) == Event("delete", i, id, path, "")
EvExc(i, text) == Event("exc", i, 0, text, "")
EvFileProgress(i, processed, total) ==
    [Event("file_progress", i, processed, "", "") EXCEPT !.m = total]
EvScanProgress(done, total) == Event("scan_progress", done, total, "", "")

-----------------------------------------------------------------------------
(* CleanupResult *)

CleanupResult(location, success, files_deleted, size_freed, error_message, timed) ==
    [location |-> location, success |-> success,
     files_deleted |-> files_deleted, size_freed |-> size_freed,
     error_message |-> error_message, timed |-> timed]

-----------------------------------------------------------------------------
(* External commands (subprocess.run).  An outcome is how the run ended    *)
(* (an exit code, subprocess.TimeoutExpired, or an OSError when the        *)
(* program cannot be started), what it wrote to stderr, and whether the    *)
(* command took effect on the system.                                      *)

CmdOutcome(kind, rc, stderr, done) ==
    [kind |-> kind, rc |-> rc, stderr |-> stderr, done |-> done]

NetOutcomes ==
    {CmdOutcome("exit", 0, "", TRUE),
     CmdOutcome("exit", 2, "", FALSE),
     CmdOutcome("timeout", 0, "", TRUE),
     CmdOutcome("timeout", 0, "", FALSE),
     CmdOutcome("oserror", 0, "", FALSE)}

(* The outcomes a batch of several keys is explored with: one of each kind *)
BatchNetOutcomes ==
    {CmdOutcome("exit", 0, "", TRUE),
     CmdOutcome("exit", 2, "", FALSE),
     CmdOutcome("timeout", 0, "", FALSE)}

ShellOutcomes ==
    {CmdOutcome("exit", 0, "", TRUE),
     CmdOutcome("exit", 1, "Access is denied", FALSE),
     CmdOutcome("exit", 1, "", FALSE),
     CmdOutcome("timeout", 0, "", TRUE),
     CmdOutcome("timeout", 0, "", FALSE),
     CmdOutcome("oserror", 0, "", FALSE)}

Raises(o) == o.kind # "exit"

ExcText(o) ==
    IF o.kind = "timeout" THEN "Command timed out"
    ELSE "[WinError 2] The system cannot find the file specified"

-----------------------------------------------------------------------------
(* _calculate_directory_size: the walk of one directory.  exc is the text  *)
(* of an exception that escapes the walk ("" when none does).              *)

RECURSIVE WalkSizeFrom(_, _, _)
WalkSizeFrom(files, k, acc) ==
    IF k > Len(files) THEN acc
    ELSE LET f == files[k] IN
         IF ~f.isfile \/ f.mode = "gone" \/ f.mode = "nostat"
         THEN WalkSizeFrom(files, k + 1, acc)
         ELSE IF f.mode = "fault"
         THEN [acc EXCEPT !.exc = "RuntimeError"]
         ELSE WalkSizeFrom(files, k + 1,
                  [acc EXCEPT !.size = @ + f.size, !.count = @ + 1])

(* The walk that counts every file listed, readable or not *)
CalculateDirectorySize_CountsListed(dir) ==
    IF ~dir.exists THEN [size |-> 0, count |-> 0, exc |-> ""]
    ELSE [WalkSizeFrom(dir.files, 1, [size |-> 0, count |-> 0, exc |-> ""])
             EXCEPT !.count = Len(SelectSeq(dir.files, LAMBDA f : f.isfile))]

CalculateDirectorySize(dir) ==
    IF ~dir.exists THEN [size |-> 0, count |-> 0, exc |-> ""]
    ELSE WalkSizeFrom(dir.files, 1, [size |-> 0, count |-> 0, exc |-> ""])

RECURSIVE ScanRecycleFrom(_, _, _)
ScanRecycleFrom(fsv, drives, acc) ==
    IF drives = <<>> \/ acc.exc # "" THEN acc
    ELSE LET one == CalculateDirectorySize(fsv[RecyclePath(Head(drives))]) IN
         ScanRecycleFrom(fsv, Tail(drives),
             [size |-> acc.size + one.size, count |-> acc.count + one.count,
              exc |-> one.exc])

ScanRecycleBin(fsv) ==
    ScanRecycleFrom(fsv, <<"C:", "D:", "E:", "F:">>,
                    [size |-> 0, count |-> 0, exc |-> ""])

-----------------------------------------------------------------------------
(* _cleanup_directory: the generic wipe *)

Undeletable(f, svcv) ==
    f.mode = "locked" \/ (f.mode = "held" /\ svcv = "running")

(* The rmdir loop, for one entry of dirs: the subdirectory is removed     *)
(* when os.listdir finds nothing in it, that is when none of its entries  *)
(* was kept, and neither os.listdir nor os.rmdir raises.                  *)
RemovableDir_WithContents(f, kept) == f.mode = "ok"

RemovableDir(f, kept) ==
    /\ f.mode = "ok"
    /\ \A j \in 1..Len(kept) : kept[j].parent # f.id

RECURSIVE WipeFrom(_, _, _, _)
WipeFrom(files, k, svcv, acc) ==
    IF k > Len(files) THEN acc
    ELSE LET f == files[k] IN
         IF ~f.isfile /\ f.mode \notin {"gone", "fault"}
         THEN WipeFrom(files, k + 1, svcv,
                  IF RemovableDir(f, acc.kept) THEN acc
                  ELSE [acc EXCEPT !.kept = Append(@, f)])
         ELSE IF f.mode = "gone"
         THEN WipeFrom(files, k + 1, svcv, acc)
         ELSE IF f.mode = "fault"
         THEN [acc EXCEPT !.exc = "RuntimeError",
                          !.kept = @ \o SubSeq(files, k, Len(files))]
         ELSE IF f.mode = "nostat" \/ Undeletable(f, svcv)
         THEN WipeFrom(files, k + 1, svcv, [acc EXCEPT !.kept = Append(@, f)])
         ELSE WipeFrom(files, k + 1, svcv,
                  [acc EXCEPT !.n = @ + 1, !.bytes = @ + f.size,
                              !.dels = Append(@, f.id)])

DeleteEvents(i, path, ids) == [j \in 1..Len(ids) |-> EvDelete(i, path, ids[j])]

(* What the file loop does to the outside: each os.remove that succeeds,   *)
(* followed by progress_callback(processed_files, total_files) when a      *)
(* callback was passed and total_files, the file_count the location holds  *)
(* from the last scan, is positive.                                        *)
WipeEvents(i, path, ids, cb, total_files) ==
    IF cb /\ total_files > 0
    THEN [j \in 1..(2 * Len(ids)) |->
             IF j % 2 = 1 THEN EvDelete(i, path, ids[(j + 1) \div 2])
             ELSE EvFileProgress(i, j \div 2, total_files)]
    ELSE DeleteEvents(i, path, ids)

(* The wipe that reports failure when it found nothing to delete *)
CleanupDirectory_FailsWhenNothingDeleted(location, cb, fsv, svcv, i) ==
    IF ~fsv[location.path].exists
    THEN [res |-> CleanupResult(location.name, TRUE, 0, 0,
                                "Directory does not exist", FALSE),
          fs |-> fsv, evs |-> <<>>]
    ELSE LET w == WipeFrom(fsv[location.path].files, 1, svcv,
                       [kept |-> <<>>, n |-> 0, bytes |-> 0, dels |-> <<>>,
                        exc |-> ""])
             left == w.kept
             msg == IF w.exc # "" THEN w.exc
                    ELSE IF w.n = 0 THEN "Nothing to delete" ELSE ""
         IN [res |-> CleanupResult(location.name, w.exc = "" /\ w.n > 0, w.n,
                                   w.bytes, msg, TRUE),
             fs |-> [fsv EXCEPT ![location.path] = Dir(left)],
             evs |-> WipeEvents(i, location.path, w.dels, cb, location.file_count)
                        \o (IF w.exc = "" THEN <<>> ELSE <<EvExc(i, w.exc)>>)]

(* The wipe that reports the figures of the last scan *)
CleanupDirectory_CachedFigures(location, cb, fsv, svcv, i) ==
    IF ~fsv[location.path].exists
    THEN [res |-> CleanupResult(location.name, TRUE, 0, 0,
                                "Directory does not exist", FALSE),
          fs |-> fsv, evs |-> <<>>]
    ELSE LET w == WipeFrom(fsv[location.path].files, 1, svcv,
                       [kept |-> <<>>, n |-> 0, bytes |-> 0, dels |-> <<>>,
                        exc |-> ""])
             left == w.kept
         IN [res |-> CleanupResult(location.name, w.exc = "", location.file_count,
                                   location.size, w.exc, TRUE),
             fs |-> [fsv EXCEPT ![location.path] = Dir(left)],
             evs |-> WipeEvents(i, location.path, w.dels, cb, location.file_count)
                        \o (IF w.exc = "" THEN <<>> ELSE <<EvExc(i, w.exc)>>)]

CleanupDirectory(location, cb, fsv, svcv, i) ==
    IF ~fsv[location.path].exists
    THEN [res |-> CleanupResult(location.name, TRUE, 0, 0,
                                "Directory does not exist", FALSE),
          fs |-> fsv, evs |-> <<>>]
    ELSE LET w == WipeFrom(fsv[location.path].files, 1, svcv,
                       [kept |-> <<>>, n |-> 0, bytes |-> 0, dels |-> <<>>,
                        exc |-> ""])
             left == w.kept
         IN [res |-> CleanupResult(location.name, w.exc = "", w.n, w.bytes,
                                   w.exc, TRUE),
             fs |-> [fsv EXCEPT ![location.path] = Dir(left)],
             evs |-> WipeEvents(i, location.path, w.dels, cb, location.file_count)
                        \o (IF w.exc = "" THEN <<>> ELSE <<EvExc(i, w.exc)>>)]

-----------------------------------------------------------------------------
(* _empty_recycle_bin: the OS-delegated empty *)

IsRecyclePath(p) == \E d \in Drives : p = RecyclePath(d)

EmptiedBins(fsv) ==
    [p \in DOMAIN fsv |->
        IF IsRecyclePath(p) /\ fsv[p].exists THEN Dir(<<>>) ELSE fsv[p]]

(* The failure text taken from stderr alone *)
RecycleFailureText_StderrOnly(o) == o.stderr

RecycleFailureText(o) ==
    IF o.stderr # "" THEN o.stderr ELSE "Failed to empty Recycle Bin"

EmptyRecycleBin(fsv, o, i) ==
    LET sc == ScanRecycleBin(fsv) IN
    IF sc.exc # ""
    THEN [res |-> CleanupResult("Recycle Bin", FALSE, 0, 0, sc.exc, TRUE),
          fs |-> fsv, evs |-> <<EvExc(i, sc.exc)>>]
    ELSE [res |->
             IF Raises(o)
             THEN CleanupResult("Recycle Bin", FALSE, 0, 0, ExcText(o), TRUE)
             ELSE IF o.rc = 0
             THEN CleanupResult("Recycle Bin", TRUE, sc.count, sc.size, "", TRUE)
             ELSE CleanupResult("Recycle Bin", FALSE, 0, 0,
                                RecycleFailureText(o), TRUE),
          fs |-> IF o.done THEN EmptiedBins(fsv) ELSE fsv,
          evs |-> <<EvCmd(i, "clear", o)>>]

-----------------------------------------------------------------------------
(* _cleanup_prefetch_files: the fixed-size trim *)

(* The listing loop: the entries named *.pf that are files, with their     *)
(* modification time and size.  The first entry whose getmtime or getsize  *)
(* raises ends the loop, and the exception leaves the try block.           *)

Eligible(f) == f.ext = "pf" /\ f.isfile /\ f.mode # "gone"

StatRaises(f) == f.mode = "nostat" \/ f.mode = "fault"

ListPrefetch(files) ==
    LET bad == {k \in 1..Len(files) : Eligible(files[k]) /\ StatRaises(files[k])}
        first == CHOOSE k \in bad : \A h \in bad : k <= h
    IN IF bad = {}
       THEN [list |-> SelectSeq(files, Eligible), exc |-> ""]
       ELSE [list |-> <<>>,
             exc |-> IF files[first].mode = "nostat"
                     THEN "[WinError 5] Access is denied"
                     ELSE "RuntimeError"]

(* list.sort(key = mtime, reverse = True): stable, so entries of equal     *)
(* mtime keep the order of the listing.  The sort is by groups of equal    *)
(* mtime, the newest group first.                                          *)

RECURSIVE SortGroups(_, _)
SortGroups(list, times) ==
    IF times = {} THEN <<>>
    ELSE LET t == CHOOSE x \in times : \A y \in times : y <= x
         IN SelectSeq(list, LAMBDA f : f.mtime = t)
                \o SortGroups(list, times \ {t})

(* The sort without reverse = True *)
SortOldestFirst(list) ==
    LET s == SortGroups(list, {list[j].mtime : j \in 1..Len(list)})
    IN [j \in 1..Len(s) |-> s[Len(s) + 1 - j]]

SortNewestFirst(list) ==
    SortGroups(list, {list[j].mtime : j \in 1..Len(list)})

(* The slice that keeps one file fewer *)
FilesToDelete_FromKeepCount(sorted) == SubSeq(sorted, KeepCount, Len(sorted))

FilesToDelete(sorted) == SubSeq(sorted, KeepCount + 1, Len(sorted))

RECURSIVE TrimFrom(_, _, _, _)
TrimFrom(todo, k, svcv, acc) ==
    IF k > Len(todo) THEN acc
    ELSE LET f == todo[k] IN
         IF Undeletable(f, svcv)
         THEN TrimFrom(todo, k + 1, svcv, acc)
         ELSE TrimFrom(todo, k + 1, svcv,
                  [acc EXCEPT !.n = @ + 1, !.bytes = @ + f.size,
                              !.dels = Append(@, f.id)])

IdsOf(ids) == {ids[j] : j \in 1..Len(ids)}

CleanupPrefetchFiles(fsv, svcv, i) ==
    IF ~fsv[PPrefetch].exists
    THEN [res |-> CleanupResult("Prefetch Files", TRUE, 0, 0,
                                "Prefetch directory does not exist", FALSE),
          fs |-> fsv, evs |-> <<>>]
    ELSE LET l == ListPrefetch(fsv[PPrefetch].files)
         IN IF l.exc # ""
            THEN [res |-> CleanupResult("Prefetch Files", FALSE, 0, 0, l.exc, TRUE),
                  fs |-> fsv, evs |-> <<EvExc(i, l.exc)>>]
            ELSE LET t == TrimFrom(FilesToDelete(SortNewestFirst(l.list)), 1, svcv,
                                   [n |-> 0, bytes |-> 0, dels |-> <<>>])
                     gone == IdsOf(t.dels)
                 IN [res |-> CleanupResult("Prefetch Files", TRUE, t.n, t.bytes,
                                           "", TRUE),
                     fs |-> [fsv EXCEPT ![PPrefetch] =
                                Dir(SelectSeq(fsv[PPrefetch].files,
                                      LAMBDA f : f.id \notin gone /\ f.mode # "gone"))],
                     evs |-> DeleteEvents(i, PPrefetch, t.dels)]

-----------------------------------------------------------------------------
(* _cleanup_windows_update_cache: the service-coordinated wipe.  stop and  *)
(* start are the outcomes of the commands of the try block, start2 that of *)
(* the start command of the except block.                                  *)

AfterStop(svcv, o) == IF o.done THEN "stopped" ELSE svcv

AfterStart(svcv, o) == IF o.done THEN "running" ELSE svcv

(* The location the strategy builds for the wipe: no callback is passed   *)
(* and file_count is the default 0.                                        *)
UpdateCacheLocation ==
    CleanupLocation("Windows Update Cache", PDownload, "System Cache", FALSE, TRUE)

(* The wipe whose except block does not start the service *)
CleanupWindowsUpdateCache_NoRestartOnError(fsv, svcv, stop, start, start2, i) ==
    LET svc1 == AfterStop(svcv, stop)
        w == CleanupDirectory(UpdateCacheLocation, FALSE, fsv, svc1, i)
        svc2 == AfterStart(svc1, start)
    IN IF Raises(stop)
       THEN [res |-> CleanupResult("Windows Update Cache", FALSE, 0, 0,
                                   ExcText(stop), TRUE),
             fs |-> fsv, svc |-> svc1,
             evs |-> <<EvCmd(i, "stop", stop)>>]
       ELSE IF Raises(start)
       THEN [res |-> CleanupResult("Windows Update Cache", FALSE, 0, 0,
                                   ExcText(start), TRUE),
             fs |-> w.fs, svc |-> svc2,
             evs |-> <<EvCmd(i, "stop", stop)>> \o w.evs
                        \o <<EvCmd(i, "start", start)>>]
       ELSE [res |-> w.res, fs |-> w.fs, svc |-> svc2,
             evs |-> <<EvCmd(i, "stop", stop)>> \o w.evs
                        \o <<EvCmd(i, "start", start)>>]

CleanupWindowsUpdateCache(fsv, svcv, stop, start, start2, i) ==
    LET svc1 == AfterStop(svcv, stop)
        w == CleanupDirectory(UpdateCacheLocation, FALSE, fsv, svc1, i)
        svc2 == AfterStart(svc1, start)
    IN IF Raises(stop)
       THEN [res |-> CleanupResult("Windows Update Cache", FALSE, 0, 0,
                                   ExcText(stop), TRUE),
             fs |-> fsv, svc |-> AfterStart(svc1, start2),
             evs |-> <<EvCmd(i, "stop", stop), EvCmd(i, "start", start2)>>]
       ELSE IF Raises(start)
       THEN [res |-> CleanupResult("Windows Update Cache", FALSE, 0, 0,
                                   ExcText(start), TRUE),
             fs |-> w.fs, svc |-> AfterStart(svc2, start2),
             evs |-> <<EvCmd(i, "stop", stop)>> \o w.evs
                        \o <<EvCmd(i, "start", start), EvCmd(i, "start", start2)>>]
       ELSE [res |-> w.res, fs |-> w.fs, svc |-> svc2,
             evs |-> <<EvCmd(i, "stop", stop)>> \o w.evs
                        \o <<EvCmd(i, "start", start)>>]

-----------------------------------------------------------------------------
(* cleanup_location and cleanup_selected_locations.  One action is one     *)
(* iteration of the batch loop: the progress callback, then the call of    *)
(* cleanup_location for keys[i], whose strategy is chosen by the key.  The *)
(* loop is at "loop" until the list of results is returned ("done").       *)
(* A caller may also call cleanup_location(key, progress_callback) itself: *)
(* then pc is "call", keys is <<key>>, has_cb tells whether it passed a    *)
(* callback, and the call ends at "done".  The batch loop passes none.     *)

NoOutcome == CmdOutcome("exit", 0, "", FALSE)

(* The unknown-key result without its message *)
LocationNotFound_NoMessage(key) == CleanupResult(key, FALSE, 0, 0, "", FALSE)

LocationNotFound(key) == CleanupResult(key, FALSE, 0, 0, "Location not found", FALSE)

CurrentKey == keys[idx + 1]

ProgressCall(i, total, message) ==
    IF has_cb THEN <<EvProgress(i, total, message)>> ELSE <<>>

(* The iteration that reports progress after the call instead of before *)
IterationEvents_ProgressAfter(i, key, evs) ==
    <<EvEnter(i, key)>> \o evs \o <<EvReturn(i, key)>>
        \o ProgressCall(i, Len(keys), "Cleaning " \o key \o "...")

(* The iteration that does not wait for the strategy before going on *)
IterationEvents_NotAwaited(i, key, evs) ==
    ProgressCall(i, Len(keys), "Cleaning " \o key \o "...")
        \o <<EvEnter(i, key), EvReturn(i, key)>> \o evs

IterationEvents(i, key, evs) ==
    ProgressCall(i, Len(keys), "Cleaning " \o key \o "...")
        \o <<EvEnter(i, key)>> \o evs \o <<EvReturn(i, key)>>

CallEvents(i, key, evs) == <<EvEnter(i, key)>> \o evs \o <<EvReturn(i, key)>>

InLoop == pc = "loop" /\ idx < Len(keys)

DirectCall == pc = "call" /\ idx < Len(keys)

Calling == InLoop \/ DirectCall

(* Whether cleanup_location was given a progress_callback *)
CallbackPassed == pc = "call" /\ has_cb

(* The return that resets the figures of the location just cleaned *)
Returned_ResetsFigures(r) ==
    /\ results' = Append(results, r.res)
    /\ fs' = r.fs
    /\ log' = log \o (IF pc = "loop"
                      THEN IterationEvents(idx, CurrentKey, r.evs)
                      ELSE CallEvents(idx, CurrentKey, r.evs))
    /\ idx' = idx + 1
    /\ pc' = IF pc = "call" THEN "done" ELSE pc
    /\ catalog' = [k \in DOMAIN catalog |->
                      IF k = CurrentKey
                      THEN [catalog[k] EXCEPT !.size = 0, !.file_count = 0]
                      ELSE catalog[k]]
    /\ UNCHANGED <<guiVars, environ, fs0, keys, has_cb, scanVars>>

Returned(r) ==
    /\ results' = Append(results, r.res)
    /\ fs' = r.fs
    /\ log' = log \o (IF pc = "loop"
                      THEN IterationEvents(idx, CurrentKey, r.evs)
                      ELSE CallEvents(idx, CurrentKey, r.evs))
    /\ idx' = idx + 1
    /\ pc' = IF pc = "call" THEN "done" ELSE pc
    /\ UNCHANGED <<guiVars, environ, fs0, catalog, keys, has_cb, scanVars>>

CleanUnknown ==
    /\ Calling
    /\ CurrentKey \notin DOMAIN catalog
    /\ Returned([res |-> LocationNotFound(CurrentKey), fs |-> fs, evs |-> <<>>])
    /\ UNCHANGED svc

CleanRecycleBinWith(outcomes) ==
    /\ Calling
    /\ CurrentKey \in DOMAIN catalog
    /\ CurrentKey = "recycle_bin"
    /\ \E o \in outcomes :
          /\ ScanRecycleBin(fs).exc # "" => o = NoOutcome
          /\ Returned(EmptyRecycleBin(fs, o, idx))
    /\ UNCHANGED svc

(* The dispatch that lets 'prefetch' fall through to the generic wipe *)
CleanPrefetch_FallsThrough ==
    /\ Calling
    /\ CurrentKey \in DOMAIN catalog
    /\ CurrentKey = "prefetch"
    /\ Returned(CleanupDirectory(catalog[CurrentKey], CallbackPassed, fs, svc,
                                 idx))
    /\ UNCHANGED svc

CleanPrefetch ==
    /\ Calling
    /\ CurrentKey \in DOMAIN catalog
    /\ CurrentKey = "prefetch"
    /\ Returned(CleanupPrefetchFiles(fs, svc, idx))
    /\ UNCHANGED svc

CleanWindowsUpdateCacheWith(outcomes) ==
    /\ Calling
    /\ CurrentKey \in DOMAIN catalog
    /\ CurrentKey = "windows_update_cache"
    /\ \E stop \in outcomes :
       \E start \in IF Raises(stop) THEN {NoOutcome} ELSE outcomes :
       \E start2 \in IF Raises(stop) \/ Raises(start) THEN outcomes
                     ELSE {NoOutcome} :
          LET r == CleanupWindowsUpdateCache(fs, svc, stop, start, start2, idx)
          IN /\ Returned(r)
             /\ svc' = r.svc

CleanDirectory ==
    /\ Calling
    /\ CurrentKey \in DOMAIN catalog
    /\ CurrentKey \notin {"recycle_bin", "prefetch", "windows_update_cache"}
    /\ Returned(CleanupDirectory(catalog[CurrentKey], CallbackPassed, fs, svc,
                                 idx))
    /\ UNCHANGED svc

BatchFinal ==
    /\ pc = "loop"
    /\ idx = Len(keys)
    /\ log' = log \o ProgressCall(Len(keys), Len(keys), "Cleanup completed")
    /\ pc' = "done"
    /\ UNCHANGED <<guiVars, environ, fs0, catalog, fs, svc, keys, has_cb, idx, results,
                   scanVars>>

-----------------------------------------------------------------------------
(* scan_cleanup_locations.  Every location is submitted to a pool of       *)
(* MaxWorkers threads; a task is "queued" until a thread takes it,         *)
(* "walking" while scan_location runs, "finished" once scan_location has   *)
(* written the location's fields and returned, and "yielded" once          *)
(* as_completed has handed its future to the main thread.  A task records  *)
(* the thread that is running it (worker), how often it was started (runs) and *)
(* how often the location's fields were written (writes).  The threads of  *)
(* the pool are interchangeable: of the idle ones, the one of least index  *)
(* takes the next task.                                                    *)

Tasks(st) == {k \in DOMAIN task : task[k].st = st}

(* A pool that never sees a thread as taken *)
Busy_Never(w) == FALSE

Busy(w) == \E k \in Tasks("walking") : task[k].worker = w

NextQueued ==
    LET order == CatalogOrder(environ)
        first == CHOOSE j \in 1..Len(order) :
                    /\ task[order[j]].st = "queued"
                    /\ \A h \in 1..(j - 1) : task[order[h]].st # "queued"
    IN order[first]

(* The scan that leaves the fields alone when there is nothing to walk *)
ScanLocation_SkipsAbsent(loc, fsv) ==
    LET r == IF loc.path = PRecycleToken
             THEN ScanRecycleBin(fsv)
             ELSE CalculateDirectorySize(fsv[loc.path])
    IN IF r.exc = "" /\ r.count > 0
       THEN [loc EXCEPT !.size = r.size, !.file_count = r.count]
       ELSE loc

(* The scan whose except branch leaves the fields as they were *)
ScanLocation_KeepsOnError(loc, fsv) ==
    LET r == IF loc.path = PRecycleToken
             THEN ScanRecycleBin(fsv)
             ELSE CalculateDirectorySize(fsv[loc.path])
    IN IF r.exc = ""
       THEN [loc EXCEPT !.size = r.size, !.file_count = r.count]
       ELSE loc

ScanLocation(loc, fsv) ==
    LET r == IF loc.path = PRecycleToken
             THEN ScanRecycleBin(fsv)
             ELSE CalculateDirectorySize(fsv[loc.path])
    IN IF r.exc = ""
       THEN [loc EXCEPT !.size = r.size, !.file_count = r.count]
       ELSE [loc EXCEPT !.size = 0, !.file_count = 0]

RECURSIVE SumOver(_, _)
SumOver(f, S) ==
    IF S = {} THEN 0
    ELSE LET k == CHOOSE x \in S : TRUE IN f[k] + SumOver(f, S \ {k})

ScanBegin ==
    /\ scan_pc = "idle"
    /\ scan_pc' = "running"
    /\ completed' = 0
    /\ task' = [k \in DOMAIN catalog |->
                   [st |-> "queued", worker |-> 0, runs |-> 0, writes |-> 0]]
    /\ UNCHANGED <<guiVars, environ, fs0, catalog, fs, svc, has_cb, batchVars, log, totals>>

WorkerStart(w) ==
    /\ scan_pc = "running"
    /\ Tasks("queued") # {}
    /\ ~Busy(w)
    /\ \A v \in 1..(w - 1) : Busy(v)
    /\ task' = [task EXCEPT ![NextQueued] =
                   [@ EXCEPT !.st = "walking", !.worker = w, !.runs = @ + 1]]
    /\ UNCHANGED <<guiVars, environ, fs0, catalog, fs, svc, has_cb, batchVars, log, scan_pc,
                   completed, totals>>

(* The worker whose location object is shared by the keys of equal path *)
WorkerFinish_SharedObject(w) ==
    /\ scan_pc = "running"
    /\ \E k \in Tasks("walking") :
          /\ task[k].worker = w
          /\ catalog' = [j \in DOMAIN catalog |->
                            IF catalog[j].path = catalog[k].path
                            THEN ScanLocation(catalog[j], fs)
                            ELSE catalog[j]]
          /\ task' = [task EXCEPT ![k] =
                         [@ EXCEPT !.st = "finished", !.worker = 0,
                                   !.writes = @ + 1]]
    /\ UNCHANGED <<guiVars, environ, fs0, fs, svc, has_cb, batchVars, log, scan_pc, completed,
                   totals>>

WorkerFinish(w) ==
    /\ scan_pc = "running"
    /\ \E k \in Tasks("walking") :
          /\ task[k].worker = w
          /\ catalog' = [catalog EXCEPT ![k] = ScanLocation(catalog[k], fs)]
          /\ task' = [task EXCEPT ![k] =
                         [@ EXCEPT !.st = "finished", !.worker = 0,
                                   !.writes = @ + 1]]
    /\ UNCHANGED <<guiVars, environ, fs0, fs, svc, has_cb, batchVars, log, scan_pc, completed,
                   totals>>

(* The collection that reports the count before incrementing it *)
Collect_Stale ==
    /\ scan_pc = "running"
    /\ \E k \in Tasks("finished") :
          task' = [task EXCEPT ![k].st = "yielded"]
    /\ completed' = completed + 1
    /\ log' = IF has_cb
              THEN Append(log, EvScanProgress(completed,
                                              Cardinality(DOMAIN catalog)))
              ELSE log
    /\ UNCHANGED <<guiVars, environ, fs0, catalog, fs, svc, has_cb, batchVars, scan_pc, totals>>

Collect ==
    /\ scan_pc = "running"
    /\ \E k \in Tasks("finished") :
          task' = [task EXCEPT ![k].st = "yielded"]
    /\ completed' = completed + 1
    /\ log' = IF has_cb
              THEN Append(log, EvScanProgress(completed + 1,
                                              Cardinality(DOMAIN catalog)))
              ELSE log
    /\ UNCHANGED <<guiVars, environ, fs0, catalog, fs, svc, has_cb, batchVars, scan_pc, totals>>

ScanEnd ==
    /\ scan_pc = "running"
    /\ Tasks("yielded") = DOMAIN catalog
    /\ totals' = [size |-> SumOver([k \in DOMAIN catalog |-> catalog[k].size],
                                   DOMAIN catalog),
                  files |-> SumOver([k \in DOMAIN catalog |-> catalog[k].file_count],
                                    DOMAIN catalog)]
    /\ scan_pc' = "done"
    /\ UNCHANGED <<guiVars, environ, fs0, catalog, fs, svc, has_cb, batchVars, log, task,
                   completed>>

-----------------------------------------------------------------------------
(* Filesystems and inputs *)

F(id, size, mode) == File(id, "tmp", TRUE, 1, size, mode)

Pf(id, mtime, size, mode) == File(id, "pf", TRUE, mtime, size, mode)

BoundedSeq(S, n) == UNION {[1..m -> S] : m \in 0..n}

DMixed == Dir(<<F(1, 3, "ok"), F(2, 5, "locked"), F(3, 1, "gone"),
                F(4, 2, "nostat"), F(5, 4, "ok")>>)

DClean == Dir(<<F(1, 1, "ok"), F(2, 2, "ok")>>)

DFault == Dir(<<F(1, 2, "ok"), F(2, 1, "fault"), F(3, 1, "ok")>>)

DHeld == Dir(<<F(1, 2, "held"), F(2, 3, "ok")>>)

DThree == Dir(<<F(1, 100, "ok"), F(2, 200, "ok"), F(3, 300, "ok")>>)

AllAbsent == [p \in Paths |-> AbsentDir]

WorldBare == [env |-> [TEMP |-> PUserTemp, TMP |-> ""], fs |-> AllAbsent]

WorldOrdinary ==
    [env |-> [TEMP |-> PUserTemp, TMP |-> PUserTemp],
     fs |-> [AllAbsent EXCEPT
                ![PUserTemp] = DMixed,
                ![PWinTemp] = DClean,
                ![PDownload] = DHeld,
                ![PUpdateLogs] = DThree,
                ![PPrefetch] = Dir(<<Pf(1, 3, 1, "ok"), Pf(2, 1, 2, "locked"),
                                     F(3, 1, "ok")>>),
                ![RecyclePath("C:")] = DMixed,
                ![RecyclePath("D:")] = Dir(<<>>)]]

WorldFaulty ==
    [env |-> [TEMP |-> "", TMP |-> ""],
     fs |-> [AllAbsent EXCEPT
                ![PWinTemp] = DFault,
                ![PDownload] = DFault,
                ![PPrefetch] = Dir(<<Pf(1, 3, 1, "ok"), Pf(2, 1, 2, "nostat")>>),
                ![RecyclePath("C:")] = DClean,
                ![RecyclePath("D:")] = DFault]]

Worlds == {WorldBare, WorldOrdinary, WorldFaulty}

(* The size and file_count an earlier scan left in the locations; the      *)
(* files may have changed since that scan, so the figures need not agree   *)
(* with the directories.                                                   *)
Cached ==
    {[size |-> 0, file_count |-> 0],
     [size |-> 1, file_count |-> 1],
     [size |-> 7, file_count |-> 3]}

WithCached(cat, c) ==
    [k \in DOMAIN cat |-> [cat[k] EXCEPT !.size = c.size, !.file_count = c.file_count]]

KeyUniverse ==
    {"user_temp", "windows_temp", "recycle_bin", "prefetch",
     "windows_update_cache", "missing_key"}

ScanIdle ==
    /\ scan_pc = "idle"
    /\ task = [k \in DOMAIN catalog |->
                  [st |-> "none", worker |-> 0, runs |-> 0, writes |-> 0]]
    /\ completed = 0
    /\ totals = [size |-> 0, files |-> 0]

-----------------------------------------------------------------------------
(* cleanup_selected_locations on a list of at most MaxKeys keys *)

(* The widget as setup_ui leaves it: only Scan System can be pressed *)
GuiIdle ==
    /\ scan_btn = TRUE
    /\ quick_temp_btn = FALSE
    /\ cleanup_btn = FALSE
    /\ scan_threads = 0
    /\ scan_signals = 0
    /\ cleanup_threads = 0
    /\ cleanup_signals = 0

Init ==
    /\ GuiIdle
    /\ \E w \in Worlds :
          /\ environ = w.env
          /\ fs = w.fs
          /\ catalog = InitializeCleanupLocations(w.env)
    /\ fs0 = fs
    /\ svc \in {"running", "stopped"}
    /\ keys \in BoundedSeq(KeyUniverse, MaxKeys)
    /\ has_cb \in BOOLEAN
    /\ pc = "loop"
    /\ idx = 0
    /\ results = <<>>
    /\ log = <<>>
    /\ ScanIdle

CleanRecycleBin == CleanRecycleBinWith(ShellOutcomes)

BatchCleanWindowsUpdateCache == CleanWindowsUpdateCacheWith(BatchNetOutcomes)

Next ==
    \/ CleanUnknown
    \/ CleanRecycleBin
    \/ CleanPrefetch
    \/ BatchCleanWindowsUpdateCache
    \/ CleanDirectory
    \/ BatchFinal

Spec == Init /\ [][Next]_vars

-----------------------------------------------------------------------------
(* One call of cleanup_location("windows_update_cache"), on every download *)
(* directory of at most MaxFiles files, file j having size j               *)

Numbered(modes) ==
    [j \in 1..Len(modes) |-> File(j, "tmp", TRUE, 1, j, modes[j])]

SmallDirs ==
    {AbsentDir} \cup {Dir(Numbered(m)) : m \in BoundedSeq(Modes, MaxFiles)}

SingleCall(key) ==
    /\ keys = <<key>>
    /\ has_cb = FALSE
    /\ pc = "loop"
    /\ idx = 0
    /\ results = <<>>
    /\ log = <<>>
    /\ ScanIdle

InitUpdateCache ==
    /\ GuiIdle
    /\ environ = WorldBare.env
    /\ catalog = InitializeCleanupLocations(environ)
    /\ \E d \in SmallDirs : fs = [AllAbsent EXCEPT ![PDownload] = d]
    /\ fs0 = fs
    /\ svc \in {"running", "stopped"}
    /\ SingleCall("windows_update_cache")

CleanWindowsUpdateCache == CleanWindowsUpdateCacheWith(NetOutcomes)

NextUpdateCache ==
    \/ CleanWindowsUpdateCache
    \/ BatchFinal

SpecUpdateCache == InitUpdateCache /\ [][NextUpdateCache]_vars

-----------------------------------------------------------------------------
(* One call of cleanup_location("prefetch").  The directory lists a block  *)
(* of BulkCount like files of modification time 2 and, before or after it, *)
(* at most MaxVar entries of any kind with modification times 1 to 3.      *)

BulkCounts == {0, KeepCount - 1, KeepCount}

VarKinds ==
    {[ext |-> "pf", isfile |-> TRUE, mtime |-> t, mode |-> m] :
        t \in 1..3, m \in {"ok", "locked"}}
    \cup {[ext |-> "tmp", isfile |-> TRUE, mtime |-> 1, mode |-> "ok"],
          [ext |-> "pf", isfile |-> FALSE, mtime |-> 3, mode |-> "ok"],
          [ext |-> "pf", isfile |-> TRUE, mtime |-> 1, mode |-> "nostat"],
          [ext |-> "pf", isfile |-> TRUE, mtime |-> 3, mode |-> "gone"]}

VarFiles(v) ==
    [j \in 1..Len(v) |->
        File(j, v[j].ext, v[j].isfile, v[j].mtime, 2 + j, v[j].mode)]

BulkFiles(n) == [j \in 1..n |-> Pf(100 + j, 2, 1, "ok")]

PrefetchDirs ==
    {AbsentDir}
    \cup {Dir(VarFiles(v) \o BulkFiles(n)) :
             v \in BoundedSeq(VarKinds, MaxVar), n \in BulkCounts}
    \cup {Dir(BulkFiles(n) \o VarFiles(v)) :
             v \in BoundedSeq(VarKinds, MaxVar), n \in BulkCounts}

InitPrefetch ==
    /\ GuiIdle
    /\ environ = WorldBare.env
    /\ catalog = InitializeCleanupLocations(environ)
    /\ \E d \in PrefetchDirs : fs = [AllAbsent EXCEPT ![PPrefetch] = d]
    /\ fs0 = fs
    /\ svc = "running"
    /\ SingleCall("prefetch")

NextPrefetch ==
    \/ CleanPrefetch
    \/ BatchFinal

SpecPrefetch == InitPrefetch /\ [][NextPrefetch]_vars

-----------------------------------------------------------------------------
(* One call of scan_cleanup_locations, the first or a later one: the       *)
(* locations and the totals hold what the scan before left                 *)

CatalogTotals ==
    [size |-> SumOver([k \in DOMAIN catalog |-> catalog[k].size], DOMAIN catalog),
     files |-> SumOver([k \in DOMAIN catalog |-> catalog[k].file_count],
                       DOMAIN catalog)]

InitScan ==
    /\ GuiIdle
    /\ \E w \in Worlds : \E c \in Cached :
          /\ environ = w.env
          /\ fs = w.fs
          /\ catalog = WithCached(InitializeCleanupLocations(w.env), c)
    /\ fs0 = fs
    /\ svc = "running"
    /\ has_cb \in BOOLEAN
    /\ keys = <<>>
    /\ pc = "done"
    /\ idx = 0
    /\ results = <<>>
    /\ log = <<>>
    /\ scan_pc = "idle"
    /\ task = [k \in DOMAIN catalog |->
                  [st |-> "none", worker |-> 0, runs |-> 0, writes |-> 0]]
    /\ completed = 0
    /\ totals = CatalogTotals

NextScan ==
    \/ ScanBegin
    \/ \E w \in 1..MaxWorkers : WorkerStart(w)
    \/ \E w \in 1..MaxWorkers : WorkerFinish(w)
    \/ Collect
    \/ ScanEnd

SpecScan == InitScan /\ [][NextScan]_vars

-----------------------------------------------------------------------------
(* Properties.  Call i is the cleanup_location call of loop index i; its   *)
(* result is results[i + 1].                                               *)

Min(a, b) == IF a <= b THEN a ELSE b

CallsReturned == 0..(idx - 1)

EventsOf(i, kinds) == SelectSeq(log, LAMBDA e : e.i = i /\ e.ev \in kinds)

Positions(i, ev, what) ==
    {p \in 1..Len(log) : log[p].ev = ev /\ log[p].i = i /\ log[p].what = what}

DeletedIn(i) == Len(EventsOf(i, {"delete"}))

FailedInside(i) ==
    \/ keys[i + 1] \notin DOMAIN catalog
    \/ \E p \in 1..Len(log) :
          /\ log[p].i = i
          /\ \/ log[p].ev = "exc"
             \/ log[p].ev = "cmd" /\ log[p].out # "ok"

(* C1: a failure of any kind inside the strategy of one key (an exception  *)
(* that leaves the wipe, an external command that fails or times out, an   *)
(* unknown key) gives that key a result with success = false, and the      *)
(* batch still returns one result for every key.                           *)
C1_AsClaimed ==
    /\ Len(results) = idx
    /\ pc = "done" => idx = Len(keys)
    /\ \A i \in CallsReturned : FailedInside(i) => ~results[i + 1].success

(* C5: an unknown key gets the result (key, success = false, 0 files, 0    *)
(* bytes, "Location not found"); the call deletes no file, runs no command *)
(* and leaves the service alone; the loop goes on to the next key, and the *)
(* batch returns a result for every key.                                   *)
C5_UnknownKey ==
    /\ [](pc = "done" => Len(results) = Len(keys))
    /\ [][(InLoop /\ CurrentKey \notin DOMAIN catalog) =>
             /\ results' = Append(results,
                    CleanupResult(CurrentKey, FALSE, 0, 0, "Location not found",
                                  FALSE))
             /\ fs' = fs
             /\ svc' = svc
             /\ SelectSeq(log', LAMBDA e : e.i = idx /\ e.ev \in {"delete", "cmd"})
                   = <<>>
             /\ idx' = idx + 1
             /\ pc' = "loop"]_vars

C5_Witness ==
    /\ idx >= 2
    /\ keys[1] \notin DOMAIN catalog
    /\ results[1].error_message = "Location not found"
    /\ results[2].success
    /\ results[2].files_deleted > 0

NoOpTexts == {"Directory does not exist", "Prefetch directory does not exist"}

ProgressEvents == SelectSeq(log, LAMBDA e : e.ev = "progress")

(* C8: with a progress callback, a batch of n keys makes n + 1 calls of    *)
(* it: call i (index i, total n) directly before cleanup_location of key i *)
(* is entered and directly after that of key i - 1 has returned, and a     *)
(* last call (n, n) after the last return.                                 *)
C8_BatchProgress ==
    has_cb =>
       /\ Len(ProgressEvents) = IF pc = "done" THEN Len(keys) + 1 ELSE idx
       /\ \A j \in 1..Len(ProgressEvents) :
             /\ ProgressEvents[j].i = j - 1
             /\ ProgressEvents[j].n = Len(keys)
       /\ \A p \in 1..Len(log) :
             /\ log[p].ev = "enter" =>
                   /\ p > 1
                   /\ log[p - 1].ev = "progress"
                   /\ log[p - 1].i = log[p].i
             /\ (log[p].ev = "progress" /\ log[p].i > 0) =>
                   /\ p > 1
                   /\ log[p - 1].ev = "return"
                   /\ log[p - 1].i = log[p].i - 1
             /\ (log[p].ev = "progress" /\ log[p].i < Len(keys)) =>
                   /\ p < Len(log)
                   /\ log[p + 1].ev = "enter"
                   /\ log[p + 1].i = log[p].i
       /\ pc = "done" =>
             log[Len(log)] = EvProgress(Len(keys), Len(keys), "Cleanup completed")

C8_Witness ==
    /\ has_cb
    /\ pc = "done"
    /\ Len(keys) >= 2
    /\ Len(ProgressEvents) = Len(keys) + 1

ExpectedLocation(key) ==
    IF key \in DOMAIN catalog THEN catalog[key].name ELSE key

(* C4: the batch returns one result per key, in the order of the keys, and *)
(* the result of a key is the true outcome of cleaning it: "Location not   *)
(* found" for an unknown key and, for a key cleaned by deleting files, the *)
(* number of files that call deleted.                                      *)
C4_AsClaimed ==
    pc = "done" =>
       /\ Len(results) = Len(keys)
       /\ \A j \in 1..Len(keys) :
             /\ results[j].location = ExpectedLocation(keys[j])
             /\ keys[j] \notin DOMAIN catalog =>
                   results[j].error_message = "Location not found"
             /\ (keys[j] \in DOMAIN catalog /\ keys[j] # "recycle_bin") =>
                   results[j].files_deleted = DeletedIn(j - 1)

-----------------------------------------------------------------------------
(* The service-coordinated wipe (SpecUpdateCache) *)

CmdPositions(i, name) == Positions(i, "cmd", name)

ReturnPosition(i) == CHOOSE p \in 1..Len(log) : log[p].ev = "return" /\ log[p].i = i

LastStart(i) == CHOOSE p \in CmdPositions(i, "start") :
                   \A q \in CmdPositions(i, "start") : q <= p

StartFollowsStop(i) ==
    \E p \in CmdPositions(i, "stop") :
    \E q \in CmdPositions(i, "start") :
       /\ p < q
       /\ q < ReturnPosition(i)
       /\ \A d \in 1..Len(log) : (log[d].i = i /\ log[d].ev = "delete") => d < q

C10_AsClaimed ==
    \A i \in CallsReturned :
       (\E p \in 1..Len(log) :
           log[p].i = i /\ log[p].ev = "cmd" /\ log[p].out # "ok") =>
          /\ ~results[i + 1].success
          /\ results[i + 1].timed

-----------------------------------------------------------------------------
(* The fixed-size trim (SpecPrefetch).  The rank of an eligible entry is   *)
(* the number of eligible entries modified later than it, or at the same   *)
(* time and listed before it; the newest are those of rank below 128.      *)

PrefetchReturned == idx = 1 /\ keys[1] = "prefetch" /\ fs0[PPrefetch].exists

EligibleAt(files) == {k \in 1..Len(files) : Eligible(files[k])}

EligibleIds(files) == {files[k].id : k \in EligibleAt(files)}

Newer(files, j, k) ==
    \/ files[j].mtime > files[k].mtime
    \/ files[j].mtime = files[k].mtime /\ j < k

Rank(files, among, k) == Cardinality({j \in among : Newer(files, j, k)})

NewestIds(files) ==
    LET among == EligibleAt(files)
    IN {files[k].id : k \in {h \in among : Rank(files, among, h) < KeepCount}}

LockedIds(files) ==
    {files[k].id : k \in {h \in EligibleAt(files) : files[h].mode = "locked"}}

(* C3: after the trim the eligible files left number exactly               *)
(* min(128, original count), and they are the 128 most recently modified   *)
(* ones, ties broken by the order of the listing.                          *)
C3_AsClaimed ==
    PrefetchReturned =>
       /\ Cardinality(EligibleIds(fs[PPrefetch].files))
             = Min(KeepCount, Cardinality(EligibleIds(fs0[PPrefetch].files)))
       /\ EligibleIds(fs[PPrefetch].files) = NewestIds(fs0[PPrefetch].files)

(* C3: the trim deletes none of the 128 most recently modified eligible    *)
(* files (ties broken by the order of the listing) and nothing that was    *)
(* not eligible.  When it succeeds, an older eligible file is left exactly *)
(* when its removal raised, so that with no such file exactly              *)
(* min(128, original count) are left, and files_deleted is the number      *)
(* removed.  When the listing raises, the call fails and deletes nothing.  *)
C3_TrimKeepsNewest ==
    PrefetchReturned =>
       LET orig == fs0[PPrefetch].files
           now == fs[PPrefetch].files
           left == EligibleIds(now)
           newest == NewestIds(orig)
           surplus == EligibleIds(orig) \ newest
           stuck == LockedIds(orig) \cap surplus
       IN /\ newest \subseteq left
          /\ left \subseteq EligibleIds(orig)
          /\ SelectSeq(now, LAMBDA f : ~Eligible(f) /\ f.mode # "gone")
                = SelectSeq(orig, LAMBDA f : ~Eligible(f) /\ f.mode # "gone")
          /\ results[1].success =>
                /\ left \cap surplus = stuck
                /\ results[1].files_deleted = Cardinality(EligibleIds(orig) \ left)
                /\ DeletedIn(0) = results[1].files_deleted
                /\ stuck = {} =>
                      Cardinality(left) = Min(KeepCount, Cardinality(EligibleIds(orig)))
          /\ ~results[1].success =>
                /\ now = orig
                /\ DeletedIn(0) = 0
                /\ \E k \in EligibleAt(orig) : StatRaises(orig[k])

(* A file deleted although a file of the same modification time is kept,   *)
(* and an older file left because its removal raised                       *)
C3_Witness ==
    /\ PrefetchReturned
    /\ results[1].success
    /\ LET orig == fs0[PPrefetch].files
           left == EligibleIds(fs[PPrefetch].files)
       IN /\ \E a \in EligibleAt(orig) : \E b \in EligibleAt(orig) :
                /\ orig[a].mtime = orig[b].mtime
                /\ orig[a].id \in left
                /\ orig[b].id \notin left
          /\ Cardinality(left) > KeepCount

-----------------------------------------------------------------------------
(* The scan (SpecScan) *)

TotalLocations == Cardinality(DOMAIN catalog)

(* C7: with a progress callback, one scan of a catalog of N locations      *)
(* calls it once per location handed back by as_completed, the j-th call   *)
(* being (j, N), so N calls with completed = 1, 2, ..., N in all, the last *)
(* one (N, N).                                                             *)
C7_ScanProgress ==
    /\ scan_pc # "idle" =>
          /\ completed = Cardinality(Tasks("yielded"))
          /\ has_cb => log = [j \in 1..completed |-> EvScanProgress(j, TotalLocations)]
          /\ ~has_cb => log = <<>>
    /\ scan_pc = "done" => completed = TotalLocations

C7_Witness ==
    /\ scan_pc = "done"
    /\ has_cb
    /\ Len(log) = TotalLocations
    /\ TotalLocations > MaxWorkers
    /\ log[Len(log)] = EvScanProgress(TotalLocations, TotalLocations)

(* C9: at most 4 locations are being walked at a time, each by a thread of *)
(* its own out of the 4 of the pool; every location is started at most     *)
(* once and written only by the run that walked it, and when the scan has  *)
(* returned every location was walked once and written once.               *)
C9_BoundedPool ==
    scan_pc # "idle" =>
       /\ Cardinality(Tasks("walking")) <= MaxWorkers
       /\ \A k \in Tasks("walking") : task[k].worker \in 1..MaxWorkers
       /\ \A k \in Tasks("walking") : \A h \in Tasks("walking") :
             k # h => task[k].worker # task[h].worker
       /\ \A k \in DOMAIN task :
             /\ task[k].runs = IF task[k].st = "queued" THEN 0 ELSE 1
             /\ task[k].writes = IF task[k].st \in {"finished", "yielded"} THEN 1 ELSE 0
       /\ scan_pc = "done" =>
             \A k \in DOMAIN catalog : task[k].runs = 1 /\ task[k].writes = 1

C9_Witness ==
    /\ Cardinality(Tasks("walking")) = MaxWorkers
    /\ Tasks("queued") # {}
    /\ Tasks("finished") # {}

-----------------------------------------------------------------------------
(* Repeat calls (Spec).  A location is emptied when no file is left in its *)
(* directories; the prefetch directory, which the trim never empties, when *)
(* no more than 128 eligible files are left in it.                         *)

LocationDirs(key) ==
    IF key = "recycle_bin" THEN {RecyclePath(d) : d \in Drives}
    ELSE {catalog[key].path}

NoFileLeft(key, fsv) ==
    \A p \in LocationDirs(key) :
       \A j \in 1..Len(fsv[p].files) : ~fsv[p].files[j].isfile

Emptied(key, fsv) ==
    IF key = "prefetch"
    THEN Cardinality(EligibleIds(fsv[PPrefetch].files)) <= KeepCount
    ELSE NoFileLeft(key, fsv)

RepeatCall ==
    /\ InLoop
    /\ idx >= 1
    /\ keys[idx] = CurrentKey
    /\ CurrentKey \in DOMAIN catalog
    /\ results[idx].success
    /\ Emptied(CurrentKey, fs)

(* C11: when the call before this one cleaned the same key with success    *)
(* and left the location emptied, the repeat call returns success = true   *)
(* and files_deleted = 0 and leaves the filesystem as it was.              *)
C11_AsClaimed ==
    [][RepeatCall =>
          /\ results'[idx + 1].success
          /\ results'[idx + 1].files_deleted = 0
          /\ fs' = fs]_vars

(* C11: when the call before this one cleaned the same key with success    *)
(* and left the location emptied, the repeat call returns                  *)
(* files_deleted = 0 and zero bytes freed, deletes nothing and leaves the  *)
(* filesystem as it was; it returns success = true unless an external      *)
(* command it runs (empty recycle bin, stop or start service) fails.       *)
C11_Idempotent ==
    [][RepeatCall =>
          /\ results'[idx + 1].files_deleted = 0
          /\ results'[idx + 1].size_freed = 0
          /\ SelectSeq(log', LAMBDA e : e.i = idx /\ e.ev = "delete") = <<>>
          /\ fs' = fs
          /\ SelectSeq(log', LAMBDA e : e.i = idx /\ e.ev = "cmd" /\ e.out # "ok") = <<>>
                => results'[idx + 1].success]_vars

C11_Witness ==
    /\ idx = 2
    /\ keys[1] = keys[2]
    /\ keys[1] \in DOMAIN catalog
    /\ keys[1] \notin {"recycle_bin", "prefetch", "windows_update_cache"}
    /\ results[1].success
    /\ results[1].files_deleted > 0
    /\ NoFileLeft(keys[1], fs)
    /\ results[2].success
    /\ results[2].files_deleted = 0

-----------------------------------------------------------------------------
(* Locations whose directory does not exist (Spec).  No strategy creates   *)
(* or removes a location's directory, so it is absent at the call exactly  *)
(* when it was absent at the start.                                        *)

DirectoryAbsent(key) == \A p \in LocationDirs(key) : ~fs0[p].exists

(* C12: cleaning a location whose directory does not exist returns         *)
(* success = true, files_deleted = 0, zero bytes freed and the message     *)
(* "Directory does not exist", whichever strategy the key is dispatched    *)
(* to.                                                                     *)
C12_AsClaimed ==
    \A i \in CallsReturned :
       (keys[i + 1] \in DOMAIN catalog /\ DirectoryAbsent(keys[i + 1])) =>
          /\ results[i + 1].success
          /\ results[i + 1].files_deleted = 0
          /\ results[i + 1].size_freed = 0
          /\ results[i + 1].error_message = "Directory does not exist"

-----------------------------------------------------------------------------
(* One call of cleanup_location(key, progress_callback) by a caller, with  *)
(* or without a callback, on a catalog whose locations hold the size and   *)
(* file_count an earlier scan left there.                                  *)

(* A tree of depth two: the root holds file 1 and subdirectory 10, which  *)
(* holds file 2 and subdirectory 20, which holds file 3.                   *)
TreeModes == {"ok", "locked", "nostat", "gone", "fault"}

TreeDir(m1, m2, m3, d10, d20) ==
    Dir(<<Under(20, F(3, 4, m3)),
          Under(10, F(2, 2, m2)), Under(10, SubDir(20, d20)),
          F(1, 1, m1), SubDir(10, d10)>>)

TreeDirs ==
    {TreeDir(m1, m2, m3, d10, d20) :
        m1 \in TreeModes, m2 \in TreeModes, m3 \in TreeModes,
        d10 \in {"ok", "locked"}, d20 \in {"ok", "locked"}}

LocationWorlds ==
    Worlds
    \cup {[env |-> WorldBare.env, fs |-> [AllAbsent EXCEPT ![PUserTemp] = d]] :
             d \in SmallDirs \cup TreeDirs}

InitLocation ==
    /\ GuiIdle
    /\ \E w \in LocationWorlds : \E c \in Cached :
          /\ environ = w.env
          /\ fs = w.fs
          /\ catalog = WithCached(InitializeCleanupLocations(w.env), c)
    /\ fs0 = fs
    /\ svc \in {"running", "stopped"}
    /\ \E k \in KeyUniverse \cup {"system_temp", "windows_update_logs"} : keys = <<k>>
    /\ has_cb \in BOOLEAN
    /\ pc = "call"
    /\ idx = 0
    /\ results = <<>>
    /\ log = <<>>
    /\ ScanIdle

NextLocation ==
    \/ CleanUnknown
    \/ CleanRecycleBin
    \/ CleanPrefetch
    \/ CleanWindowsUpdateCache
    \/ CleanDirectory

SpecLocation == InitLocation /\ [][NextLocation]_vars

-----------------------------------------------------------------------------
(* The generic wipe (SpecLocation) *)

GenericKey(key) ==
    /\ key \in DOMAIN catalog
    /\ key \notin {"recycle_bin", "prefetch", "windows_update_cache"}

GenericReturned == idx = 1 /\ GenericKey(keys[1]) /\ fs0[catalog[keys[1]].path].exists

IdsIn(files) == {files[j].id : j \in 1..Len(files)}

(* The files of the directory that were there at the call and are not now *)
RemovedAt(path) ==
    {j \in 1..Len(fs0[path].files) :
        /\ fs0[path].files[j].isfile
        /\ fs0[path].files[j].mode # "gone"
        /\ fs0[path].files[j].id \notin IdsIn(fs[path].files)}

(* C13: in a generic wipe files_deleted is the number of files the call    *)
(* removed and the bytes freed are the sum of their sizes on disk; a file  *)
(* whose size query or delete fails stays and is counted in neither; the   *)
(* figures are these whatever size and file_count the location holds from  *)
(* the last scan.                                                          *)
C13_LiveCounts ==
    GenericReturned =>
       LET path == catalog[keys[1]].path
           before == fs0[path].files
           removed == RemovedAt(path)
       IN /\ results[1].files_deleted = Cardinality(removed)
          /\ results[1].files_deleted = DeletedIn(0)
          /\ results[1].size_freed
                = SumOver([j \in removed |-> before[j].size], removed)
          /\ \A j \in 1..Len(before) :
                (before[j].isfile /\ (before[j].mode = "nostat"
                                        \/ Undeletable(before[j], svc))) =>
                   /\ j \notin removed
                   /\ before[j].id \in IdsIn(fs[path].files)

C13_Witness ==
    /\ GenericReturned
    /\ results[1].success
    /\ results[1].files_deleted = 2
    /\ catalog[keys[1]].file_count = 3
    /\ results[1].size_freed > 0
    /\ \E j \in 1..Len(fs[catalog[keys[1]].path].files) :
          fs[catalog[keys[1]].path].files[j].mode = "nostat"
    /\ \E j \in 1..Len(fs[catalog[keys[1]].path].files) :
          fs[catalog[keys[1]].path].files[j].mode = "locked"

-----------------------------------------------------------------------------
(* What a scan records (SpecScan) *)

Scanned(k) == scan_pc # "idle" /\ task[k].st \in {"finished", "yielded"}

WalkedKey(k) == catalog[k].path # PRecycleToken

(* The files of a listing whose size can be read *)
ReadableAt(files) ==
    {j \in 1..Len(files) :
        files[j].isfile /\ files[j].mode \notin {"gone", "nostat", "fault"}}

WalkFails(files) ==
    \E j \in 1..Len(files) : files[j].isfile /\ files[j].mode = "fault"

(* C14: a location whose files are readable, raise a permission error on   *)
(* the size query or have vanished since the listing scans to file_count = *)
(* the number of readable files and size = the sum of their sizes (files   *)
(* of 100, 200 and 300 bytes scan to 3 files and 600 bytes); the files     *)
(* that raise or have vanished are in neither figure, and the files listed *)
(* after them are still counted.                                           *)
C14_ScanCounts ==
    \A k \in DOMAIN catalog :
       (Scanned(k) /\ WalkedKey(k) /\ ~WalkFails(fs[catalog[k].path].files)) =>
          LET files == fs[catalog[k].path].files
              readable == ReadableAt(files)
          IN /\ catalog[k].file_count = Cardinality(readable)
             /\ catalog[k].size = SumOver([j \in readable |-> files[j].size], readable)

C14_Witness ==
    /\ scan_pc = "done"
    /\ catalog["windows_update_logs"].file_count = 3
    /\ catalog["windows_update_logs"].size = 600
    /\ "user_temp" \in DOMAIN catalog
    /\ fs[PUserTemp] = DMixed
    /\ catalog["user_temp"].file_count = 3
    /\ catalog["user_temp"].size = 12

(* C15: when a scan has returned, every location has size >= 0 and        *)
(* file_count >= 0, and a location whose directory does not exist has      *)
(* both 0, whatever the scan before had stored for it.                     *)
C15_ScanInvariant ==
    \A k \in DOMAIN catalog :
       (scan_pc = "done" \/ Scanned(k)) =>
          /\ catalog[k].size >= 0
          /\ catalog[k].file_count >= 0
          /\ DirectoryAbsent(k) => (catalog[k].size = 0 /\ catalog[k].file_count = 0)

(* Every location is scanned and collected; the totals are still those of  *)
(* the scan before, which had stored 3 files for every location            *)
C15_Witness ==
    /\ scan_pc = "running"
    /\ Tasks("yielded") = DOMAIN catalog
    /\ totals.files = 3 * TotalLocations
    /\ \E k \in DOMAIN catalog :
          DirectoryAbsent(k) /\ catalog[k].size = 0 /\ catalog[k].file_count = 0
    /\ \E k \in DOMAIN catalog : catalog[k].file_count > 0

-----------------------------------------------------------------------------
(* Scan, clean a batch of generic-wipe keys, scan again, with no other     *)
(* process touching the files and no callbacks.  Here a whole              *)
(* scan_cleanup_locations call is one step: the walks read a filesystem    *)
(* that nothing changes meanwhile, so every interleaving of the pool       *)
(* leaves each location with ScanLocation of its own directory and the     *)
(* totals with the sums (ScanOutcome, which holds in SpecScan).            *)

ScanOutcome ==
    scan_pc = "done" =>
       /\ \A k \in DOMAIN catalog : catalog[k] = ScanLocation(catalog[k], fs)
       /\ totals = CatalogTotals

ScanAll ==
    /\ catalog' = [k \in DOMAIN catalog |-> ScanLocation(catalog[k], fs)]
    /\ totals' =
          [size |-> SumOver([k \in DOMAIN catalog |->
                               ScanLocation(catalog[k], fs).size], DOMAIN catalog),
           files |-> SumOver([k \in DOMAIN catalog |->
                               ScanLocation(catalog[k], fs).file_count],
                             DOMAIN catalog)]
    /\ completed' = Cardinality(DOMAIN catalog)
    /\ task' = [k \in DOMAIN catalog |->
                   [st |-> "yielded", worker |-> 0, runs |-> task[k].runs + 1,
                    writes |-> task[k].writes + 1]]
    /\ UNCHANGED <<guiVars, environ, fs0, fs, svc, keys, has_cb, idx, results, log>>

PreScan ==
    /\ pc = "wait"
    /\ scan_pc = "idle"
    /\ ScanAll
    /\ scan_pc' = "done"
    /\ pc' = "loop"

Rescan ==
    /\ pc = "done"
    /\ scan_pc = "done"
    /\ ScanAll
    /\ scan_pc' = "rescanned"
    /\ pc' = pc

GenericKeys == {"user_temp", "system_temp", "windows_temp", "windows_update_logs"}

(* No file is listed and gone: no other process deletes files meanwhile *)
Quiet(fsv) ==
    \A p \in DOMAIN fsv : \A j \in 1..Len(fsv[p].files) : fsv[p].files[j].mode # "gone"

CycleWorlds ==
    {w \in Worlds : Quiet(w.fs)}
    \cup {[env |-> WorldBare.env,
           fs |-> [AllAbsent EXCEPT ![PUserTemp] = d, ![PWinTemp] = DClean]] :
              d \in {x \in SmallDirs : Quiet([p \in {PUserTemp} |-> x])}}

InitCycle ==
    /\ GuiIdle
    /\ \E w \in CycleWorlds :
          /\ environ = w.env
          /\ fs = w.fs
          /\ catalog = InitializeCleanupLocations(w.env)
    /\ fs0 = fs
    /\ svc = "running"
    /\ keys \in BoundedSeq(GenericKeys, MaxKeys)
    /\ has_cb = FALSE
    /\ pc = "wait"
    /\ idx = 0
    /\ results = <<>>
    /\ log = <<>>
    /\ ScanIdle

NextCycle ==
    \/ PreScan
    \/ CleanUnknown
    \/ CleanDirectory
    \/ BatchFinal
    \/ Rescan

SpecCycle == InitCycle /\ [][NextCycle]_vars

BatchKeys == {keys[j] : j \in 1..Len(keys)}

FreedBySuccesses ==
    SumOver([j \in 1..Len(results) |->
                IF results[j].success THEN results[j].size_freed ELSE 0],
            1..Len(results))

BatchSize(cat) == SumOver([k \in BatchKeys |-> cat[k].size], BatchKeys)

(* C16: for a batch of generic-wipe keys, the bytes freed of the           *)
(* successful results add up to the scanned size of the batch's locations  *)
(* before the cleanup minus their scanned size after it.                   *)
C16_AsClaimed ==
    [][(pc = "done" /\ scan_pc = "done" /\ scan_pc' = "rescanned"
           /\ BatchKeys \subseteq DOMAIN catalog) =>
          FreedBySuccesses = BatchSize(catalog) - BatchSize(catalog')]_vars

-----------------------------------------------------------------------------
(* Per-file errors *)

TransientModes == {"locked", "held", "nostat", "gone"}

(* The directory of the key holds a file that answers a per-file call      *)
(* with an OSError, and none that raises anything else.                    *)
TransientOnly(key) ==
    /\ key \in DOMAIN catalog
    /\ fs0[catalog[key].path].exists
    /\ \E j \in 1..Len(fs0[catalog[key].path].files) :
          fs0[catalog[key].path].files[j].mode \in TransientModes
    /\ \A j \in 1..Len(fs0[catalog[key].path].files) :
          fs0[catalog[key].path].files[j].mode # "fault"

(* C17: a call of the generic wipe or of the prefetch trim on a directory  *)
(* whose only failing files fail with a per-file OSError (permission       *)
(* denied, vanished file) on the size query, the modification-time query   *)
(* or the delete returns success = true.                                   *)
C17_AsClaimed ==
    (pc = "done" /\ keys[1] \in GenericKeys \cup {"prefetch"}
        /\ TransientOnly(keys[1])) =>
       results[1].success

-----------------------------------------------------------------------------
(* get_cleanup_summary: the per-category figures are added up from the     *)
(* locations, the overall figures are the attributes the last scan set.    *)

Categories == {catalog[k].category : k \in DOMAIN catalog}

InCategory(c) == {k \in DOMAIN catalog : catalog[k].category = c}

GetCleanupSummary ==
    [categories |->
        [c \in Categories |->
            [locations |-> InCategory(c),
             total_size |-> SumOver([k \in InCategory(c) |-> catalog[k].size],
                                    InCategory(c)),
             total_files |-> SumOver([k \in InCategory(c) |-> catalog[k].file_count],
                                     InCategory(c)),
             enabled_count |-> Cardinality({k \in InCategory(c) : catalog[k].enabled})]],
     total_size |-> totals.size,
     total_files |-> totals.files,
     total_locations |-> Cardinality(DOMAIN catalog)]

(* C18: in every state, a scan in flight included, the overall size and    *)
(* file count get_cleanup_summary reports are the sums of the locations'   *)
(* current size and file_count, and so the sums of the per-category        *)
(* totals of the same result.                                              *)
C18_AsClaimed ==
    LET s == GetCleanupSummary IN
    /\ s.total_size = CatalogTotals.size
    /\ s.total_files = CatalogTotals.files
    /\ s.total_size = SumOver([c \in Categories |-> s.categories[c].total_size],
                              Categories)
    /\ s.total_files = SumOver([c \in Categories |-> s.categories[c].total_files],
                               Categories)

-----------------------------------------------------------------------------
(* Independence of the cached figures *)

FileProgressOf(evs) == SelectSeq(evs, LAMBDA e : e.ev = "file_progress")

(* The same call on the same files by a manager whose location carries     *)
(* the figures c instead.                                                  *)
OtherRun(c) ==
    CleanupDirectory([catalog[keys[1]] EXCEPT !.size = c.size,
                                              !.file_count = c.file_count],
                     has_cb, fs0, svc, 0)

(* C19: a generic wipe that has returned left the files, returned the      *)
(* result and made the progress-callback invocations that the same call    *)
(* makes on the same files with any other cached size and file_count.      *)
C19_AsClaimed ==
    (pc = "done" /\ GenericKey(keys[1])) =>
       \A c \in Cached :
          /\ OtherRun(c).fs = fs
          /\ OtherRun(c).res = results[1]
          /\ FileProgressOf(OtherRun(c).evs) = FileProgressOf(log)

-----------------------------------------------------------------------------
(* One location at a time *)

StrategyEvents == {"delete", "cmd"}

(* C20: in a batch every file deletion and external command of key i lies  *)
(* between the entry to and the return from cleanup_location of key i, and *)
(* that return lies before the entry for key i + 1: no action of key i + 1 *)
(* begins before those of key i are complete.                              *)
C20_OneAtATime ==
    /\ \A p \in 1..Len(log) :
          log[p].ev \in StrategyEvents =>
             \E a \in 1..(p - 1) : \E b \in (p + 1)..Len(log) :
                /\ log[a].ev = "enter" /\ log[a].i = log[p].i
                /\ log[b].ev = "return" /\ log[b].i = log[p].i
    /\ \A a, b \in 1..Len(log) :
          (log[a].ev = "return" /\ log[b].ev = "enter" /\ log[a].i < log[b].i) =>
             a < b
    /\ \A p, q \in 1..Len(log) :
          (log[p].ev \in StrategyEvents /\ log[q].ev \in StrategyEvents
              /\ log[p].i < log[q].i) => p < q

C20_Witness ==
    /\ pc = "done"
    /\ Len(keys) = 2
    /\ \E p, q \in 1..Len(log) :
          /\ log[p].i = 0 /\ log[p].ev = "cmd"
          /\ log[q].i = 0 /\ log[q].ev = "delete"
    /\ \E p, q \in 1..Len(log) :
          /\ log[p].i = 1 /\ log[p].ev = "cmd"
          /\ log[q].i = 1 /\ log[q].ev = "delete"

-----------------------------------------------------------------------------
(* Deletions and the state of the service (SpecUpdateCache) *)

DeletePositions(i) == {d \in 1..Len(log) : log[d].ev = "delete" /\ log[d].i = i}

(* C21: in the service-coordinated wipe every file deletion comes after a  *)
(* stop command that ended with exit code 0 and before any start command,  *)
(* and a stop command that failed or timed out is followed by no deletion. *)
C21_AsClaimed ==
    \A i \in CallsReturned :
       keys[i + 1] = "windows_update_cache" =>
          /\ \A d \in DeletePositions(i) :
                /\ \E p \in CmdPositions(i, "stop") : p < d /\ log[p].out = "ok"
                /\ \A q \in CmdPositions(i, "start") : d < q
          /\ (\E p \in CmdPositions(i, "stop") : log[p].out # "ok") =>
                DeletePositions(i) = {}

-----------------------------------------------------------------------------
(* A location whose scan fails as a whole (SpecScan) *)

(* scan_location of k raises: a walk of its directory, or of the recycle   *)
(* bin of some drive, raises an exception that is no OSError.              *)
ScanRaises(k) ==
    IF catalog[k].path = PRecycleToken
    THEN \E d \in Drives : /\ fs[RecyclePath(d)].exists
                           /\ WalkFails(fs[RecyclePath(d)].files)
    ELSE fs[catalog[k].path].exists /\ WalkFails(fs[catalog[k].path].files)

ScanProgressEvents == SelectSeq(log, LAMBDA e : e.ev = "scan_progress")

(* C22: a location whose scan_location raises ends with size 0 and         *)
(* file_count 0; every other location is still scanned, once, and holds    *)
(* the figures of its own directory; the scan cannot get stuck before it   *)
(* returns, and when it returns the callback, if there is one, has been    *)
(* called TotalLocations times, the last time with completed = total.      *)
C22_FailedLocation ==
    /\ \A k \in DOMAIN catalog :
          (Scanned(k) /\ ScanRaises(k)) =>
             catalog[k].size = 0 /\ catalog[k].file_count = 0
    /\ scan_pc = "running" => ENABLED NextScan
    /\ scan_pc = "done" =>
          /\ completed = TotalLocations
          /\ \A k \in DOMAIN catalog :
                /\ task[k].st = "yielded" /\ task[k].runs = 1 /\ task[k].writes = 1
                /\ (~ScanRaises(k) /\ WalkedKey(k)) =>
                      LET files == fs[catalog[k].path].files
                      IN catalog[k].file_count = Cardinality(ReadableAt(files))
          /\ has_cb =>
                /\ Len(ScanProgressEvents) = TotalLocations
                /\ ScanProgressEvents[TotalLocations].i = TotalLocations
                /\ ScanProgressEvents[TotalLocations].n = TotalLocations

C22_Witness ==
    /\ scan_pc = "done"
    /\ has_cb
    /\ ScanRaises("windows_temp")
    /\ \E j \in 1..Len(fs[PWinTemp].files) : fs[PWinTemp].files[j].mode = "ok"
    /\ catalog["windows_temp"].file_count = 0
    /\ ScanRaises("recycle_bin")
    /\ catalog["recycle_bin"].size = 0
    /\ ~ScanRaises("prefetch")
    /\ catalog["prefetch"].file_count > 0
    /\ Len(ScanProgressEvents) = TotalLocations

-----------------------------------------------------------------------------
(* Ownership of the location objects during a scan (SpecScan) *)

(* The step writes the fields of location k *)
Written(k) == catalog'[k] # catalog[k]

(* C23: a step that changes a location's size or file_count is the return  *)
(* of the one worker that was walking that location, it is the only write  *)
(* to that location in the scan, and it changes no other location; when    *)
(* the scan has returned every location holds the figures of the walk of   *)
(* its own directory and the totals are the sums over the locations.       *)
C23_DisjointWrites ==
    /\ [][\A k \in DOMAIN catalog :
             Written(k) =>
                /\ task[k].st = "walking"
                /\ task[k].worker \in 1..MaxWorkers
                /\ task'[k].st = "finished"
                /\ task[k].writes = 0
                /\ task'[k].writes = 1
                /\ \A j \in DOMAIN catalog \ {k} :
                      catalog'[j] = catalog[j] /\ task'[j] = task[j]]_vars
    /\ [](\A j, k \in Tasks("walking") : task[j].worker = task[k].worker => j = k)
    /\ [](scan_pc = "done" =>
             /\ \A k \in DOMAIN catalog :
                   catalog[k] = ScanLocation(catalog[k], fs) /\ task[k].writes = 1
             /\ totals = CatalogTotals)

C23_Witness ==
    /\ scan_pc = "running"
    /\ Cardinality(Tasks("walking")) = MaxWorkers - 1
    /\ \E k \in Tasks("finished") :
          /\ catalog[k].file_count = 3
          /\ catalog[k].size = 600
    /\ \E k \in Tasks("walking") : catalog[k].size = 7

-----------------------------------------------------------------------------
(* Dispatch by key (SpecLocation) *)

CommandsRun == {log[p].what : p \in {q \in 1..Len(log) : log[q].ev = "cmd"}}

(* C24: a returned cleanup_location call on a catalogued key has run the   *)
(* strategy of that key and no other: 'recycle_bin' at most the clear      *)
(* command and no change outside the recycle bins, 'prefetch' exactly the  *)
(* fixed-size trim and no command, 'windows_update_cache' the stop command *)
(* and no change outside the download directory, every other key exactly   *)
(* the generic wipe of its own directory and no command.                   *)
C24_Dispatch ==
    (pc = "done" /\ keys[1] \in DOMAIN catalog) =>
       LET k == keys[1] IN
       CASE k = "recycle_bin" ->
               /\ CommandsRun \subseteq {"clear"}
               /\ results[1].location = "Recycle Bin"
               /\ \A p \in DOMAIN fs : ~IsRecyclePath(p) => fs[p] = fs0[p]
         [] k = "prefetch" ->
               /\ CommandsRun = {}
               /\ results[1] = CleanupPrefetchFiles(fs0, svc, 0).res
               /\ fs = CleanupPrefetchFiles(fs0, svc, 0).fs
         [] k = "windows_update_cache" ->
               /\ CommandsRun \subseteq {"stop", "start"}
               /\ "stop" \in CommandsRun
               /\ results[1].location = "Windows Update Cache"
               /\ \A p \in DOMAIN fs : p # PDownload => fs[p] = fs0[p]
         [] OTHER ->
               /\ CommandsRun = {}
               /\ results[1] = CleanupDirectory(catalog[k], has_cb, fs0, svc, 0).res
               /\ fs = CleanupDirectory(catalog[k], has_cb, fs0, svc, 0).fs

C24_Witness ==
    /\ pc = "done"
    /\ keys[1] = "prefetch"
    /\ results[1].success
    /\ results[1].files_deleted = 0
    /\ Len(fs[PPrefetch].files) = 3
    /\ \E j \in 1..3 : fs[PPrefetch].files[j].ext # "pf" /\ fs[PPrefetch].files[j].mode = "ok"
    /\ fs = fs0
    /\ log = CallEvents(0, "prefetch", <<>>)

-----------------------------------------------------------------------------
(* The trim never empties the cache (SpecPrefetch) *)

(* C25: when the trim has returned, with success or not, at least          *)
(* min(128, original count) of the eligible files remain, every eligible   *)
(* file that is gone has at least 128 remaining eligible files modified    *)
(* at its time or later, and every entry that is no .pf file (another      *)
(* suffix, a subdirectory) is still there.                                 *)
C25_TrimSafety ==
    PrefetchReturned =>
       LET orig == fs0[PPrefetch].files
           now == fs[PPrefetch].files
           among == EligibleAt(orig)
           left == EligibleIds(now)
           kept == {k \in among : orig[k].id \in left}
       IN /\ Cardinality(kept) >= Min(KeepCount, Cardinality(among))
          /\ \A k \in among \ kept :
                Cardinality({j \in kept : orig[j].mtime >= orig[k].mtime}) >= KeepCount
          /\ SelectSeq(now, LAMBDA f : ~Eligible(f) /\ f.mode # "gone")
                = SelectSeq(orig, LAMBDA f : ~Eligible(f) /\ f.mode # "gone")

C25_Witness ==
    /\ PrefetchReturned
    /\ results[1].success
    /\ results[1].files_deleted = 1
    /\ Cardinality(EligibleIds(fs[PPrefetch].files)) = KeepCount
    /\ \E j \in 1..Len(fs[PPrefetch].files) :
          /\ ~fs[PPrefetch].files[j].isfile
          /\ fs[PPrefetch].files[j].ext = "pf"

-----------------------------------------------------------------------------
(* The generic wipe on a tree (SpecLocation) *)

IsSubDir(f) == ~f.isfile

(* The entries of the listing that are still there after the call *)
Remaining(key) == IdsIn(fs[catalog[key].path].files)

(* Every entry left has its subdirectory left, hence all its ancestors *)
AncestorsKept(key) ==
    LET now == fs[catalog[key].path].files
    IN \A j \in 1..Len(now) : now[j].parent # 0 => now[j].parent \in Remaining(key)

EveryDeleteSucceeds(files) ==
    \A j \in 1..Len(files) : files[j].isfile => files[j].mode = "ok"

EveryRmdirSucceeds(files) ==
    \A j \in 1..Len(files) : IsSubDir(files[j]) => files[j].mode = "ok"

(* C26: after a generic wipe has returned, the subdirectory of every entry *)
(* that is left is left too (so a directory with an undeletable file and   *)
(* all its ancestors are kept), the root still exists, and when every file *)
(* delete succeeded nothing is left under the root.                        *)
C26_AsClaimed ==
    GenericReturned =>
       /\ AncestorsKept(keys[1])
       /\ fs[catalog[keys[1]].path].exists
       /\ EveryDeleteSucceeds(fs0[catalog[keys[1]].path].files) =>
             fs[catalog[keys[1]].path].files = <<>>

(* C26: after a generic wipe has returned, the subdirectory of every entry *)
(* that is left is left too (so a directory with an undeletable file and   *)
(* all its ancestors are kept), an entry is gone only if it was a file or  *)
(* a subdirectory whose every entry is gone, the root still exists, and    *)
(* when every file delete and every os.rmdir succeeded nothing is left     *)
(* under the root; when every file delete succeeded, what is left are the  *)
(* subdirectories whose os.rmdir raised and their ancestors.               *)
C26_BottomUp ==
    GenericReturned =>
       LET orig == fs0[catalog[keys[1]].path].files
           now == fs[catalog[keys[1]].path].files
       IN /\ AncestorsKept(keys[1])
          /\ fs[catalog[keys[1]].path].exists
          /\ IdsIn(now) \subseteq IdsIn(orig)
          /\ (EveryDeleteSucceeds(orig) /\ EveryRmdirSucceeds(orig)) => now = <<>>
          /\ (EveryDeleteSucceeds(orig) /\ results[1].success) =>
                \A j \in 1..Len(now) :
                   /\ IsSubDir(now[j])
                   /\ \/ now[j].mode = "locked"
                      \/ \E h \in 1..Len(now) : now[h].parent = now[j].id

C26_Witness ==
    /\ GenericReturned
    /\ results[1].success
    /\ results[1].files_deleted = 2
    /\ LET now == fs[catalog[keys[1]].path].files
       IN /\ Len(now) = 3
          /\ \E j \in 1..3 : now[j].isfile /\ now[j].mode = "locked" /\ now[j].parent = 20
          /\ \E j \in 1..3 : IsSubDir(now[j]) /\ now[j].id = 20 /\ now[j].mode = "ok"
          /\ \E j \in 1..3 : IsSubDir(now[j]) /\ now[j].id = 10 /\ now[j].mode = "ok"

-----------------------------------------------------------------------------
(* A session: a scan, a batch over any keys, a second scan.  As in         *)
(* SpecCycle a scan_cleanup_locations call is one step.                    *)

InitSession ==
    /\ GuiIdle
    /\ \E w \in Worlds :
          /\ environ = w.env
          /\ fs = w.fs
          /\ catalog = InitializeCleanupLocations(w.env)
    /\ fs0 = fs
    /\ svc = "running"
    /\ keys \in BoundedSeq(KeyUniverse, MaxKeys)
    /\ has_cb \in BOOLEAN
    /\ pc = "wait"
    /\ idx = 0
    /\ results = <<>>
    /\ log = <<>>
    /\ ScanIdle

NextSession ==
    \/ PreScan
    \/ CleanUnknown
    \/ CleanRecycleBin
    \/ CleanPrefetch
    \/ BatchCleanWindowsUpdateCache
    \/ CleanDirectory
    \/ BatchFinal
    \/ Rescan

SpecSession == InitSession /\ [][NextSession]_vars

Advisory(loc) ==
    [name |-> loc.name, path |-> loc.path, category |-> loc.category,
     enabled |-> loc.enabled, requires_admin |-> loc.requires_admin,
     safe_to_delete |-> loc.safe_to_delete]

ScanStep == scan_pc' # scan_pc

(* C27: no step changes the catalog's keys or a location's name, path,     *)
(* category or flags; a step that changes a location's size or file_count  *)
(* or the totals is a scan, so every step of cleanup_location and of       *)
(* cleanup_selected_locations leaves them as they were.                    *)
C27_Frame ==
    [][/\ DOMAIN catalog' = DOMAIN catalog
       /\ \A k \in DOMAIN catalog : Advisory(catalog'[k]) = Advisory(catalog[k])
       /\ (catalog' # catalog \/ totals' # totals) => ScanStep
       /\ (results' # results \/ (pc = "loop" /\ pc' = "done")) =>
             catalog' = catalog /\ totals' = totals]_vars

(* A cleanup has emptied a directory and the location still carries the    *)
(* figures of the scan before it                                           *)
C27_Witness ==
    /\ pc = "done"
    /\ scan_pc = "done"
    /\ Len(keys) = 2
    /\ keys[1] = "windows_temp"
    /\ results[1].files_deleted = 2
    /\ fs[PWinTemp].files = <<>>
    /\ catalog["windows_temp"].file_count = 2
    /\ catalog["windows_temp"].size = 3
    /\ totals = CatalogTotals
    /\ totals.files > 2

-----------------------------------------------------------------------------
(* What the service-coordinated wipe reports (SpecUpdateCache) *)

(* C28: the result of the service-coordinated wipe reports the number of   *)
(* files the call deleted and the bytes they held, on every path, also     *)
(* when the start command after the wipe raises or times out.              *)
C28_AsClaimed ==
    (idx = 1 /\ keys[1] = "windows_update_cache") =>
       LET removed == RemovedAt(PDownload)
       IN /\ results[1].files_deleted = Cardinality(removed)
          /\ results[1].size_freed
                = SumOver([j \in removed |-> fs0[PDownload].files[j].size], removed)

-----------------------------------------------------------------------------
(* Paths of the catalog (SpecScan) *)

(* The files on disk a scan can count, each once *)
FilesOnDisk ==
    SumOver([p \in Paths |-> IF fs[p].exists
                             THEN Cardinality(ReadableAt(fs[p].files)) ELSE 0],
            Paths)

(* C29: no two locations of the catalog have the same path, and when a     *)
(* scan has returned total_files counts no file on disk twice.             *)
C29_AsClaimed ==
    scan_pc = "done" =>
       /\ \A a, b \in DOMAIN catalog : a # b => catalog[a].path # catalog[b].path
       /\ totals.files <= FilesOnDisk

-----------------------------------------------------------------------------
(* CleanupLocationWidget (src/cleanup_gui.py): the three buttons and the   *)
(* threads they start.  A press of a button that is not enabled does       *)
(* nothing.  A thread runs until it emits its completion signal; the       *)
(* signal is handled later, on the GUI thread.  What the threads do to the *)
(* manager is left out: the widget's manager stays as constructed, and    *)
(* keys is the location_keys of the CleanupExecutionThread created last    *)
(* (self.cleanup_thread).  At most MaxThreads threads of a kind are        *)
(* followed.                                                               *)

managerVars ==
    <<environ, catalog, fs, fs0, svc, has_cb, pc, idx, results, log,
      scan_pc, task, completed, totals>>

(* What get_selected_locations can return when it is not empty *)
Selections ==
    {sel \in BoundedSeq(DOMAIN FixedLocations(WorldBare.env), MaxKeys) :
        /\ sel # <<>>
        /\ \A a, b \in 1..Len(sel) : a < b => sel[a] # sel[b]}

(* start_scan *)
StartScan(scan, quick, clean) ==
    /\ scan_btn' = FALSE
    /\ quick_temp_btn' = quick
    /\ cleanup_btn' = clean
    /\ scan_threads' = scan_threads + 1

(* start_cleanup_with_locations *)
StartCleanupWithLocations(location_keys) ==
    /\ keys' = location_keys
    /\ cleanup_btn' = FALSE
    /\ scan_btn' = FALSE
    /\ quick_temp_btn' = quick_temp_btn
    /\ cleanup_threads' = cleanup_threads + 1

(* Scan System pressed *)
PressScan ==
    /\ scan_btn
    /\ scan_threads + scan_signals < MaxThreads
    /\ StartScan(scan_btn, quick_temp_btn, cleanup_btn)
    /\ UNCHANGED <<scan_signals, cleanup_threads, cleanup_signals, keys,
                   managerVars>>

(* CleanupScanThread.run emits scan_complete *)
ScanThreadEnds ==
    /\ scan_threads > 0
    /\ scan_threads' = scan_threads - 1
    /\ scan_signals' = scan_signals + 1
    /\ UNCHANGED <<scan_btn, quick_temp_btn, cleanup_btn, cleanup_threads,
                   cleanup_signals, keys, managerVars>>

(* scan_completed *)
ScanCompleted ==
    /\ scan_signals > 0
    /\ scan_signals' = scan_signals - 1
    /\ scan_btn' = TRUE
    /\ quick_temp_btn' = TRUE
    /\ cleanup_btn' = TRUE
    /\ UNCHANGED <<scan_threads, cleanup_threads, cleanup_signals, keys,
                   managerVars>>

(* Quick Temp Cleanup pressed and the question answered Yes *)
QuickTempCleanup ==
    /\ quick_temp_btn
    /\ cleanup_threads + cleanup_signals < MaxThreads
    /\ StartCleanupWithLocations(<<"user_temp", "system_temp", "windows_temp">>)
    /\ UNCHANGED <<scan_threads, scan_signals, cleanup_signals, managerVars>>

(* Clean Selected Locations pressed with a selection, any warning accepted *)
StartCleanup ==
    /\ cleanup_btn
    /\ cleanup_threads + cleanup_signals < MaxThreads
    /\ \E sel \in Selections : StartCleanupWithLocations(sel)
    /\ UNCHANGED <<scan_threads, scan_signals, cleanup_signals, managerVars>>

(* CleanupExecutionThread.run emits cleanup_complete *)
CleanupThreadEnds ==
    /\ cleanup_threads > 0
    /\ cleanup_threads' = cleanup_threads - 1
    /\ cleanup_signals' = cleanup_signals + 1
    /\ UNCHANGED <<scan_btn, quick_temp_btn, cleanup_btn, scan_threads,
                   scan_signals, keys, managerVars>>

(* cleanup_completed; rescan: the question "Rescan System" is asked and    *)
(* answered Yes                                                            *)
CleanupCompleted(rescan) ==
    /\ cleanup_signals > 0
    /\ cleanup_signals' = cleanup_signals - 1
    /\ IF rescan /\ scan_threads + scan_signals < MaxThreads
       THEN StartScan(TRUE, quick_temp_btn, TRUE)
       ELSE /\ cleanup_btn' = TRUE
            /\ scan_btn' = TRUE
            /\ UNCHANGED <<quick_temp_btn, scan_threads>>
    /\ UNCHANGED <<scan_signals, cleanup_threads, keys, managerVars>>

InitWidget ==
    /\ GuiIdle
    /\ environ = WorldBare.env
    /\ fs = WorldBare.fs
    /\ catalog = InitializeCleanupLocations(environ)
    /\ fs0 = fs
    /\ svc = "running"
    /\ keys = <<>>
    /\ has_cb = FALSE
    /\ pc = "wait"
    /\ idx = 0
    /\ results = <<>>
    /\ log = <<>>
    /\ ScanIdle

NextWidget ==
    \/ PressScan
    \/ ScanThreadEnds
    \/ ScanCompleted
    \/ QuickTempCleanup
    \/ StartCleanup
    \/ CleanupThreadEnds
    \/ \E rescan \in BOOLEAN : CleanupCompleted(rescan)

SpecWidget == InitWidget /\ [][NextWidget]_vars

(* C30: at most one cleanup batch is under way in the widget: a            *)
(* CleanupExecutionThread is running or its cleanup_complete signal is not *)
(* yet handled for at most one batch at a time.                            *)
C30_AsClaimed == cleanup_threads + cleanup_signals <= 1

====
